---- MODULE Spec2Model ----
(***************************************************************************)
(* Token transfers of the transaction prelude                              *)
(* (crates/tx_prelude/src/token.rs): multi_transfer and its two legs,      *)
(* apply_transparent_transfers and apply_shielded_transfer.                *)
(*                                                                         *)
(* One behaviour is one call of one of the public functions against an     *)
(* arbitrary starting ledger state.  Every statement of the functions      *)
(* that touches the context (balances, verifiers, events, actions, pool,   *)
(* commitment tree, sentinel) is one step; `pc` is the position in the     *)
(* code.  Every `?` of the source is an early return of the step it        *)
(* belongs to.                                                             *)
(*                                                                         *)
(* The functions of other crates (namada_token, namada_core, namada_tx,    *)
(* the Ctx methods) are modelled at their interface.                       *)
(***************************************************************************)
EXTENDS Integers, Sequences, FiniteSets, TLC

----------------------------------------------------------------------------
(* Bounds of the model *)

\* most legs (sources plus targets) of one transparent transfer
MaxLegs == 2
\* largest amount of one leg
MaxLegAmount == 2
\* largest value of the amount type (token::Amount) in the model
MaxAmount == 3
\* most entries of a transparent bundle's vin
MaxVin == 2

----------------------------------------------------------------------------
(* Addresses.  Address is ordered (it is a BTreeMap key); internal         *)
(* addresses sort after the others.                                        *)

Accounts == {1, 2}
Tokens == {3, 4}
InternalAddresses == {4}
Address == Accounts \cup Tokens

is_internal(a) == a \in InternalAddresses

\* Keys of the sources and targets maps: (owner, token)
Keys == Accounts \X Tokens

\* Amounts of a leg
LegAmounts == 0..MaxLegAmount

\* Balances the amount type can hold
Amounts == 0..MaxAmount

\* addr_taddr: the transparent (pool) address of an account, a hash of the
\* address.  Injective on Address (no hash collision), into a larger space.
TransparentAddress == 0..10
addr_taddr(a) == (3 * a + 1) % 11

\* A transparent address that is the taddr of no address
ForeignTAddr == CHOOSE t \in TransparentAddress : \A a \in Address : addr_taddr(a) # t

\* Ids of shielded sections (MaspTxId); None is no reference
None == 0
MaspTxIds == {1, 2}
\* The section references the callers pass; the body may hold another section
SectionRefs == {1}

----------------------------------------------------------------------------
(* Results: Ok, or Err with the chain of messages, outermost context first *)

NotReturned == [st |-> "none", err |-> <<>>]
Ok == [st |-> "ok", err |-> <<>>]
Err(chain) == [st |-> "err", err |-> chain]

\* ResultExt::wrap_err: add a context message to an error
wrap_err(r, msg) == IF r.st = "err" THEN Err(<<msg>> \o r.err) ELSE r

ErrMissingSection == "Unable to find required shielded section in tx data"
ErrHandleMasp == "Encountered error while handling MASP transaction"
ErrUpdateTree == "Failed to update the MASP commitment tree"
ErrNotAllDebited == "Transfer transaction does not debit all the expected accounts"
ErrTransparent == "Transparent token transfer failed"
ErrShielded == "Shielded token transfer failed"

----------------------------------------------------------------------------
(* Ordered maps and sets *)

\* Order of the (Address, Address) keys of a BTreeMap
KeyLess(a, b) == a[1] < b[1] \/ (a[1] = b[1] /\ a[2] < b[2])

RECURSIVE SortedKeys(_)
\* The keys of a BTreeMap in iteration order
SortedKeys(S) ==
    IF S = {} THEN <<>>
    ELSE LET m == CHOOSE k \in S : \A o \in S \ {k} : KeyLess(k, o)
         IN  <<m>> \o SortedKeys(S \ {m})

\* BTreeMap::insert
MapInsert(m, k, v) == [x \in DOMAIN m \cup {k} |-> IF x = k THEN v ELSE m[x]]

\* BTreeMap::get(..).unwrap_or_default()
GetOrZero(m, k) == IF k \in DOMAIN m THEN m[k] ELSE 0

EmptyMap == <<>>

Range(s) == {s[i] : i \in 1..Len(s)}

\* Sequences over S without repetition, of length at most n (an IndexSet)
NoDupSeqs(S, n) ==
    {s \in UNION {[1..k -> S] : k \in 0..n} :
        \A i, j \in 1..Len(s) : i # j => s[i] # s[j]}

\* HashSet::insert on the insertion-ordered set
SetInsert(s, a) == IF a \in Range(s) THEN s ELSE Append(s, a)

----------------------------------------------------------------------------
(* The balance ledger (namada_token) *)

\* The (owner, token) pairs a multi-leg transfer touches
TouchedKeys(sources, targets) == DOMAIN sources \cup DOMAIN targets

\* owner_balance + dest_amt - src_amt of one pair
NewBalance(bal, sources, targets, k) ==
    bal[k] + GetOrZero(targets, k) - GetOrZero(sources, k)

\* Some source has insufficient balance
InsufficientBalance(bal, sources, targets) ==
    \E k \in TouchedKeys(sources, targets) : NewBalance(bal, sources, targets, k) < 0

\* Some credit overflows the amount type
CreditOverflow(bal, sources, targets) ==
    \E k \in TouchedKeys(sources, targets) :
        NewBalance(bal, sources, targets, k) > MaxAmount

\* namada_token::multi_transfer: the result
token_multi_transfer_result(bal, sources, targets) ==
    IF InsufficientBalance(bal, sources, targets)
    THEN Err(<<"Insufficient source balance">>)
    ELSE IF CreditOverflow(bal, sources, targets)
    THEN Err(<<"The transfer would overflow target balance">>)
    ELSE Ok

\* namada_token::multi_transfer: the balances after a successful call
token_multi_transfer_balances(bal, sources, targets) ==
    [k \in Keys |->
        IF k \in TouchedKeys(sources, targets)
        THEN NewBalance(bal, sources, targets, k)
        ELSE bal[k]]

RECURSIVE DebitedOf(_, _, _, _)
\* The owners whose balance of some token is reduced, in the order the pairs
\* are visited (sorted), each once
DebitedOf(keys, sources, targets, acc) ==
    IF keys = <<>> THEN acc
    ELSE LET k == Head(keys)
         IN  DebitedOf(Tail(keys), sources, targets,
                 IF GetOrZero(sources, k) > GetOrZero(targets, k)
                 THEN SetInsert(acc, k[1])
                 ELSE acc)

\* namada_token::multi_transfer: the debited accounts it returns
token_multi_transfer_debited(sources, targets) ==
    DebitedOf(SortedKeys(TouchedKeys(sources, targets)), sources, targets, <<>>)

\* namada_token::read_balance
read_balance(bal, token, owner) == bal[<<owner, token>>]

\* namada_token::transfer, the single-pair primitive: debit src, credit dest.
\* The result
token_transfer_result(bal, token, src, dest, amount) ==
    IF bal[<<src, token>>] < amount
    THEN Err(<<"Insufficient source balance">>)
    ELSE IF src # dest /\ bal[<<dest, token>>] + amount > MaxAmount
    THEN Err(<<"The transfer would overflow target balance">>)
    ELSE Ok

\* namada_token::transfer: the balances after a successful call
token_transfer_balances(bal, token, src, dest, amount) ==
    IF src = dest THEN bal
    ELSE [k \in Keys |->
            IF k = <<src, token>> THEN bal[k] - amount
            ELSE IF k = <<dest, token>> THEN bal[k] + amount
            ELSE bal[k]]

----------------------------------------------------------------------------
(* Inputs *)

\* The arguments of a call of transfer
XferInputs == [src : Accounts, dest : Accounts, token : Tokens, amount : LegAmounts]

\* The maps from at most n (owner, token) pairs to an amount
LegMaps(n) ==
    UNION {[S -> LegAmounts] : S \in {S \in SUBSET Keys : Cardinality(S) <= n}}

\* The transfer descriptors (token::Transfer)
Transfers ==
    {[sources |-> s, targets |-> t, shielded_section_hash |-> h] :
        s \in LegMaps(MaxLegs), t \in LegMaps(MaxLegs), h \in {None} \cup SectionRefs}

\* The descriptors of Transfers with at most MaxLegs legs in all
TransferInputs ==
    UNION {{[sources |-> s, targets |-> t, shielded_section_hash |-> h] :
                t \in LegMaps(MaxLegs - Cardinality(DOMAIN s)),
                h \in {None} \cup SectionRefs} :
           s \in LegMaps(MaxLegs)}

\* Transfer::transparent_part: None when there is no source and no target
transparent_part(tr) ==
    IF DOMAIN tr.sources = {} /\ DOMAIN tr.targets = {}
    THEN <<>>
    ELSE <<[sources |-> tr.sources, targets |-> tr.targets]>>

\* The vin addresses a shielded payload may carry
VinPool == {addr_taddr(a) : a \in Accounts} \cup {ForeignTAddr}

\* The vin lists of a transparent bundle (repetitions allowed)
VinLists ==
    {v \in UNION {[1..n -> VinPool] : n \in 0..MaxVin} :
        \A i \in 1..(Len(v) - 1) : v[i] <= v[i + 1]}

\* The shielded payloads (MASP transactions): an id and an optional transparent
\* bundle, given by its vin
Payloads ==
    {[id |-> i, transparent_bundle |-> b] :
        i \in MaspTxIds, b \in {<<>>} \cup {<<v>> : v \in VinLists}}

\* The transaction bodies: at most one MASP section; a section no caller
\* refers to comes without a bundle
TxDatas ==
    {<<>>} \cup
    {<<p>> : p \in {q \in Payloads : q.id \in SectionRefs \/ q.transparent_bundle = <<>>}}

\* Tx::get_masp_section: the section with the given id, if any
get_masp_section(tx, ref) == SelectSeq(tx, LAMBDA p : p.id = ref)

\* The debited-accounts sets a direct caller of apply_shielded_transfer passes
DebitedInputs == NoDupSeqs(Accounts, Cardinality(Accounts))

----------------------------------------------------------------------------
(* State *)

VARIABLES
    balance,            \* balance ledger: (owner, token) -> amount
    verifiers,          \* verifier registry: set of addresses
    verifier_log,       \* the addresses given to insert_verifier, in call order
    events,             \* emitted events, in order
    actions,            \* action log, in order
    sentinel,           \* commitment-tree sentinel
    sentinel_calls,     \* number of calls of set_commitment_sentinel
    pool,               \* shielded pool: ids of the payloads handle_masp_tx applied
    tree,               \* commitment tree: ids of the payloads whose notes were appended
    pc,                 \* position in the code
    op,                 \* the function the caller called
    transfers,          \* multi_transfer / apply_transparent_transfers: the descriptor
    tx_data,            \* the transaction body
    xfer,               \* transfer: its arguments
    masp_section_ref,   \* apply_shielded_transfer: the section reference
    att_debited,        \* apply_transparent_transfers: its debited_accounts
    debited_accounts,   \* multi_transfer's debited_accounts, moved into apply_shielded_transfer
    shielded,           \* apply_shielded_transfer: the resolved payload (<<>> before)
    masp_authorizers,   \* apply_shielded_transfer: the authorizers
    evt_sources,        \* apply_transparent_transfers: event sources so far
    evt_targets,        \* apply_transparent_transfers: event targets so far
    post_balances,      \* apply_transparent_transfers: event post balances so far
    idx,                \* position of the running loop
    ret,                \* what each function returned
    pre                 \* the context when the call started

env == <<balance, verifiers, verifier_log, events, actions, sentinel, sentinel_calls, pool, tree>>
args == <<op, transfers, tx_data, xfer, pre>>
att_locals == <<att_debited, evt_sources, evt_targets, post_balances>>
ast_locals == <<masp_section_ref, debited_accounts, shielded, masp_authorizers>>
vars == <<env, args, att_locals, ast_locals, pc, idx, ret>>

\* An action of another kind, pushed earlier in the transaction
OtherAction == [kind |-> "Other", arg |-> 0]
MaspSectionRef(ref) == [kind |-> "MaspSectionRef", arg |-> ref]
MaspAuthorizer(a) == [kind |-> "MaspAuthorizer", arg |-> a]

\* The balances the transaction starts from: the first account holds the
\* largest amount of the established token, every other balance is 1
InitBalances ==
    {[k \in Keys |-> IF k[1] = 1 /\ ~is_internal(k[2]) THEN MaxAmount ELSE 1]}

Snapshot ==
    [balance |-> balance, verifiers |-> verifiers, events |-> events,
     actions |-> actions, sentinel |-> sentinel, sentinel_calls |-> sentinel_calls,
     pool |-> pool, tree |-> tree]

\* The arguments of transfer before any call
NoXfer == [src |-> 1, dest |-> 1, token |-> 3, amount |-> 0]

NoTransfer == [sources |-> EmptyMap, targets |-> EmptyMap, shielded_section_hash |-> None]

\* The context a transaction hands to the call: no verifier and no event yet,
\* one action of another kind in the action log
Init ==
    /\ balance \in InitBalances
    /\ verifiers = {}
    /\ verifier_log = <<>>
    /\ events = <<>>
    /\ actions = <<OtherAction>>
    /\ sentinel = FALSE
    /\ sentinel_calls = 0
    /\ pool = <<>>
    /\ tree = <<>>
    /\ pc = "idle"
    /\ op = "none"
    /\ transfers = NoTransfer
    /\ tx_data = <<>>
    /\ xfer = NoXfer
    /\ masp_section_ref = None
    /\ att_debited = <<>>
    /\ debited_accounts = <<>>
    /\ shielded = <<>>
    /\ masp_authorizers = <<>>
    /\ evt_sources = EmptyMap
    /\ evt_targets = EmptyMap
    /\ post_balances = EmptyMap
    /\ idx = 1
    /\ ret = [top |-> NotReturned, att |-> NotReturned, ast |-> NotReturned]
    /\ pre = Snapshot

----------------------------------------------------------------------------
(* The calls *)

\* Variant of Call_multi_transfer whose debited accounts, without a
\* transparent part, are every account instead of none
Call_multi_transfer_EveryAccount ==
    /\ pc = "idle"
    /\ \E tr \in TransferInputs, tx \in TxDatas :
        /\ tx # <<>> => tr.shielded_section_hash # None
        /\ op' = "multi_transfer"
        /\ transfers' = tr
        /\ tx_data' = tx
        /\ pc' = IF transparent_part(tr) # <<>> THEN "att_transfer" ELSE "mt_shielded"
    /\ debited_accounts' = CHOOSE d \in DebitedInputs : Range(d) = Accounts
    /\ pre' = Snapshot
    /\ UNCHANGED <<env, xfer, att_locals, masp_section_ref, shielded, masp_authorizers, idx, ret>>

\* multi_transfer, lines 61-73: with a transparent part, apply it; without,
\* the debited accounts are the empty set
Call_multi_transfer ==
    /\ pc = "idle"
    /\ \E tr \in TransferInputs, tx \in TxDatas :
        /\ tx # <<>> => tr.shielded_section_hash # None
        /\ op' = "multi_transfer"
        /\ transfers' = tr
        /\ tx_data' = tx
        /\ pc' = IF transparent_part(tr) # <<>> THEN "att_transfer" ELSE "mt_shielded"
    /\ debited_accounts' = <<>>
    /\ pre' = Snapshot
    /\ UNCHANGED <<env, xfer, att_locals, masp_section_ref, shielded, masp_authorizers, idx, ret>>

\* A call of transfer
Call_transfer ==
    /\ pc = "idle"
    /\ \E x \in XferInputs : xfer' = x
    /\ op' = "transfer"
    /\ pc' = "tr_verifiers"
    /\ pre' = Snapshot
    /\ UNCHANGED <<env, transfers, tx_data, att_locals, ast_locals, idx, ret>>

\* A direct call of apply_transparent_transfers
Call_apply_transparent_transfers ==
    /\ pc = "idle"
    /\ \E tr \in TransferInputs :
        /\ tr.shielded_section_hash = None
        /\ transfers' = tr
    /\ op' = "apply_transparent_transfers"
    /\ pc' = "att_transfer"
    /\ pre' = Snapshot
    /\ UNCHANGED <<env, xfer, tx_data, att_locals, ast_locals, idx, ret>>

\* A direct call of apply_shielded_transfer
Call_apply_shielded_transfer ==
    /\ pc = "idle"
    /\ \E ref \in SectionRefs, d \in DebitedInputs, tx \in TxDatas :
        /\ masp_section_ref' = ref
        /\ debited_accounts' = d
        /\ tx_data' = tx
    /\ op' = "apply_shielded_transfer"
    /\ pc' = "ast_resolve"
    /\ pre' = Snapshot
    /\ UNCHANGED <<env, xfer, transfers, att_locals, shielded, masp_authorizers, idx, ret>>

----------------------------------------------------------------------------
(* apply_transparent_transfers, lines 92-156 *)

\* Variant of ATT_ReturnErr in which multi_transfer notes the error of the
\* transparent leg and goes on to the shielded leg
ATT_ReturnErr_Continue(r) ==
    /\ ret' = [ret EXCEPT !.att = r]
    /\ pc' = "mt_shielded"

\* Variant of ATT_ReturnErr in which multi_transfer returns the error of the
\* transparent leg without the label of the stage
ATT_ReturnErr_Unwrapped(r) ==
    /\ ret' = [ret EXCEPT !.att = r, !.top = r]
    /\ pc' = "done"

\* An Err return of apply_transparent_transfers; multi_transfer, line 70,
\* returns it wrapped
ATT_ReturnErr(r) ==
    /\ ret' = [ret EXCEPT !.att = r,
                          !.top = IF op = "multi_transfer"
                                  THEN wrap_err(r, ErrTransparent) ELSE r]
    /\ pc' = "done"

\* Variant of ATT_MultiTransfer that drops the error of the balance mutation
\* (no `?`) and goes on to the loops
ATT_MultiTransfer_IgnoreError ==
    /\ pc = "att_transfer"
    /\ LET sources == transfers.sources
           targets == transfers.targets
           r == token_multi_transfer_result(balance, sources, targets)
       IN  /\ balance' = IF r.st = "err" THEN balance
                         ELSE token_multi_transfer_balances(balance, sources, targets)
           /\ att_debited' = IF r.st = "err" THEN <<>>
                             ELSE token_multi_transfer_debited(sources, targets)
    /\ pc' = "att_sources"
    /\ idx' = 1
    /\ UNCHANGED <<verifiers, verifier_log, events, actions, sentinel, sentinel_calls, pool, tree,
                   args, evt_sources, evt_targets, post_balances, ast_locals, ret>>

\* Variant of ATT_MultiTransfer that passes the targets where the sources
\* belong and the sources where the targets belong
ATT_MultiTransfer_Swapped ==
    /\ pc = "att_transfer"
    /\ LET sources == transfers.targets
           targets == transfers.sources
           r == token_multi_transfer_result(balance, sources, targets)
       IN  IF r.st = "err"
           THEN /\ ATT_ReturnErr(r)
                /\ UNCHANGED <<balance, att_debited, idx>>
           ELSE /\ balance' = token_multi_transfer_balances(balance, sources, targets)
                /\ att_debited' = token_multi_transfer_debited(sources, targets)
                /\ pc' = "att_sources"
                /\ idx' = 1
                /\ UNCHANGED ret
    /\ UNCHANGED <<verifiers, verifier_log, events, actions, sentinel, sentinel_calls, pool, tree,
                   args, evt_sources, evt_targets, post_balances, ast_locals>>

\* Lines 96-99: the balance mutation; `?` returns its error as it is
ATT_MultiTransfer ==
    /\ pc = "att_transfer"
    /\ LET sources == transfers.sources
           targets == transfers.targets
           r == token_multi_transfer_result(balance, sources, targets)
       IN  IF r.st = "err"
           THEN /\ ATT_ReturnErr(r)
                /\ UNCHANGED <<balance, att_debited, idx>>
           ELSE /\ balance' = token_multi_transfer_balances(balance, sources, targets)
                /\ att_debited' = token_multi_transfer_debited(sources, targets)
                /\ pc' = "att_sources"
                /\ idx' = 1
                /\ UNCHANGED ret
    /\ UNCHANGED <<verifiers, verifier_log, events, actions, sentinel, sentinel_calls, pool, tree,
                   args, evt_sources, evt_targets, post_balances, ast_locals>>

\* What can fail in one iteration of the loops: nothing, insert_verifier of
\* the account, insert_verifier of the token (internal tokens only), read_balance
LegFailures(token) ==
    {"none", "insert_verifier", "read_balance"}
        \cup (IF is_internal(token) THEN {"insert_verifier(token)"} ELSE {})

\* Variant of VerifiersAfterLeg that inserts the token of every leg, internal
\* or not
VerifiersAfterLeg_AnyToken(v, owner, token, fail) ==
    IF fail = "insert_verifier" THEN v
    ELSE IF fail # "insert_verifier(token)"
    THEN v \cup {owner, token}
    ELSE v \cup {owner}

\* Lines 107-114 and 127-134: the verifiers after one iteration
VerifiersAfterLeg(v, owner, token, fail) ==
    IF fail = "insert_verifier" THEN v
    ELSE IF is_internal(token) /\ fail # "insert_verifier(token)"
    THEN v \cup {owner, token}
    ELSE v \cup {owner}

\* Lines 107-114 and 127-134: the calls of insert_verifier of one iteration,
\* in order
VerifierLogAfterLeg(log, owner, token, fail) ==
    IF fail = "insert_verifier" THEN log
    ELSE IF is_internal(token) /\ fail # "insert_verifier(token)"
    THEN log \o <<owner, token>>
    ELSE Append(log, owner)

\* Lines 105-123: one iteration of the loop over the sources, or its end
ATT_Sources ==
    /\ pc = "att_sources"
    /\ LET keys == SortedKeys(DOMAIN transfers.sources)
       IN  IF idx > Len(keys)
           THEN /\ pc' = "att_targets"
                /\ idx' = 1
                /\ UNCHANGED <<verifiers, verifier_log, evt_sources, post_balances, ret>>
           ELSE LET src == keys[idx][1]
                    token == keys[idx][2]
                    amount == transfers.sources[keys[idx]]
                IN  \E fail \in LegFailures(token) :
                        /\ verifiers' = VerifiersAfterLeg(verifiers, src, token, fail)
                        /\ verifier_log' = VerifierLogAfterLeg(verifier_log, src, token, fail)
                        /\ IF fail = "none"
                           THEN /\ evt_sources' = MapInsert(evt_sources, <<src, token>>, amount)
                                /\ post_balances' =
                                       MapInsert(post_balances, <<src, token>>,
                                                 read_balance(balance, token, src))
                                /\ idx' = idx + 1
                                /\ UNCHANGED <<pc, ret>>
                           ELSE /\ ATT_ReturnErr(Err(<<fail>>))
                                /\ UNCHANGED <<evt_sources, post_balances, idx>>
    /\ UNCHANGED <<balance, events, actions, sentinel, sentinel_calls, pool, tree,
                   args, att_debited, evt_targets, ast_locals>>

\* Lines 125-143: one iteration of the loop over the targets, or its end
ATT_Targets ==
    /\ pc = "att_targets"
    /\ LET keys == SortedKeys(DOMAIN transfers.targets)
       IN  IF idx > Len(keys)
           THEN /\ pc' = "att_emit"
                /\ idx' = 1
                /\ UNCHANGED <<verifiers, verifier_log, evt_targets, post_balances, ret>>
           ELSE LET target == keys[idx][1]
                    token == keys[idx][2]
                    amount == transfers.targets[keys[idx]]
                IN  \E fail \in LegFailures(token) :
                        /\ verifiers' = VerifiersAfterLeg(verifiers, target, token, fail)
                        /\ verifier_log' = VerifierLogAfterLeg(verifier_log, target, token, fail)
                        /\ IF fail = "none"
                           THEN /\ evt_targets' = MapInsert(evt_targets, <<target, token>>, amount)
                                /\ post_balances' =
                                       MapInsert(post_balances, <<target, token>>,
                                                 read_balance(balance, token, target))
                                /\ idx' = idx + 1
                                /\ UNCHANGED <<pc, ret>>
                           ELSE /\ ATT_ReturnErr(Err(<<fail>>))
                                /\ UNCHANGED <<evt_targets, post_balances, idx>>
    /\ UNCHANGED <<balance, events, actions, sentinel, sentinel_calls, pool, tree,
                   args, att_debited, evt_sources, ast_locals>>

\* Variant of TransferEvent that leaves the zero-amount legs out of the event
TransferEvent_NoZero(s, t, p) ==
    LET nz(m) == [k \in {x \in DOMAIN m : m[x] # 0} |-> m[k]]
    IN  [descriptor |-> "transfer-from-wasm", level |-> "Tx",
         sources |-> nz(s), targets |-> nz(t),
         post_balances |-> [k \in DOMAIN nz(s) \cup DOMAIN nz(t) |-> p[k]]]

\* The TokenEvent of lines 145-153
TransferEvent(s, t, p) ==
    [descriptor |-> "transfer-from-wasm", level |-> "Tx",
     sources |-> s, targets |-> t, post_balances |-> p]

RECURSIVE OwnersOf(_, _)
\* The owners of a sequence of (owner, token) pairs, each once
OwnersOf(keys, acc) ==
    IF keys = <<>> THEN acc ELSE OwnersOf(Tail(keys), SetInsert(acc, Head(keys)[1]))

\* Variant of DebitedFromTransparent that takes every source account of the
\* descriptor, debited or not
DebitedFromTransparent_AllSources(debited) ==
    OwnersOf(SortedKeys(DOMAIN transfers.sources), <<>>)

\* Lines 67-73: what multi_transfer binds to its debited_accounts when the
\* transparent leg returned Ok(debited)
DebitedFromTransparent(debited) == debited

\* Lines 145-155: emit the event and return Ok(debited_accounts); in
\* multi_transfer the set becomes its debited_accounts and it goes on to line 76
ATT_Emit ==
    /\ pc = "att_emit"
    /\ events' = Append(events, TransferEvent(evt_sources, evt_targets, post_balances))
    /\ IF op = "multi_transfer"
       THEN /\ ret' = [ret EXCEPT !.att = Ok]
            /\ debited_accounts' = DebitedFromTransparent(att_debited)
            /\ pc' = "mt_shielded"
       ELSE /\ ret' = [ret EXCEPT !.att = Ok, !.top = Ok]
            /\ pc' = "done"
            /\ UNCHANGED debited_accounts
    /\ UNCHANGED <<balance, verifiers, verifier_log, actions, sentinel, sentinel_calls, pool, tree,
                   args, att_locals, masp_section_ref, shielded, masp_authorizers, idx>>

----------------------------------------------------------------------------
(* transfer, lines 25-58 *)

\* What can fail in lines 33-40
XferVerifierFailures(token) ==
    {"none", "insert_verifier(src)", "insert_verifier(dest)"}
        \cup (IF is_internal(token) THEN {"insert_verifier(token)"} ELSE {})

\* Variant of XferVerifierCalls without the insertion of the token
XferVerifierCalls_NoToken(x, fail) ==
    IF fail = "insert_verifier(src)" THEN <<>>
    ELSE IF fail = "insert_verifier(dest)" THEN <<x.src>>
    ELSE <<x.src, x.dest>>

\* Lines 33-40: the calls of insert_verifier that succeeded, in order
XferVerifierCalls(x, fail) ==
    IF fail = "insert_verifier(src)" THEN <<>>
    ELSE IF fail = "insert_verifier(dest)" THEN <<x.src>>
    ELSE IF is_internal(x.token) /\ fail = "none" THEN <<x.src, x.dest, x.token>>
    ELSE <<x.src, x.dest>>

\* An Err return of transfer
TR_ReturnErr(r) ==
    /\ ret' = [ret EXCEPT !.top = r]
    /\ pc' = "done"

\* Lines 33-40: src, dest and an internal token become verifiers
TR_Verifiers ==
    /\ pc = "tr_verifiers"
    /\ \E fail \in XferVerifierFailures(xfer.token) :
        /\ verifiers' = verifiers \cup Range(XferVerifierCalls(xfer, fail))
        /\ verifier_log' = verifier_log \o XferVerifierCalls(xfer, fail)
        /\ IF fail = "none"
           THEN pc' = "tr_transfer" /\ UNCHANGED ret
           ELSE TR_ReturnErr(Err(<<fail>>))
    /\ UNCHANGED <<balance, events, actions, sentinel, sentinel_calls, pool, tree,
                   args, att_locals, ast_locals, idx>>

\* Line 42: the balance mutation; `?` returns its error as it is
TR_Transfer ==
    /\ pc = "tr_transfer"
    /\ LET r == token_transfer_result(balance, xfer.token, xfer.src, xfer.dest, xfer.amount)
       IN  IF r.st = "err"
           THEN /\ TR_ReturnErr(r)
                /\ UNCHANGED balance
           ELSE /\ balance' = token_transfer_balances(balance, xfer.token, xfer.src,
                                                      xfer.dest, xfer.amount)
                /\ pc' = "tr_emit"
                /\ UNCHANGED ret
    /\ UNCHANGED <<verifiers, verifier_log, events, actions, sentinel, sentinel_calls,
                   pool, tree, args, att_locals, ast_locals, idx>>

\* TokenOperation::transfer: a Transfer operation with one source, one target
\* and the post balances of the two
TokenOperation_transfer(source, target, token, amount, source_post, target_post) ==
    TransferEvent(MapInsert(EmptyMap, <<source, token>>, amount),
                  MapInsert(EmptyMap, <<target, token>>, amount),
                  MapInsert(MapInsert(EmptyMap, <<source, token>>, source_post),
                            <<target, token>>, target_post))

\* Lines 44-57: read the two balances and emit the event, then Ok(())
TR_Emit ==
    /\ pc = "tr_emit"
    /\ \E fail \in {"none", "read_balance"} :
        IF fail = "none"
        THEN /\ events' = Append(events,
                     TokenOperation_transfer(xfer.src, xfer.dest, xfer.token, xfer.amount,
                         read_balance(balance, xfer.token, xfer.src),
                         read_balance(balance, xfer.token, xfer.dest)))
             /\ ret' = [ret EXCEPT !.top = Ok]
             /\ pc' = "done"
        ELSE /\ TR_ReturnErr(Err(<<fail>>))
             /\ UNCHANGED events
    /\ UNCHANGED <<balance, verifiers, verifier_log, actions, sentinel, sentinel_calls,
                   pool, tree, args, att_locals, ast_locals, idx>>

----------------------------------------------------------------------------
(* multi_transfer, lines 75-85 *)

\* Lines 76-85: with a section reference call apply_shielded_transfer with
\* the debited accounts, without one return Ok
MT_Shielded ==
    /\ pc = "mt_shielded"
    /\ IF transfers.shielded_section_hash # None
       THEN /\ masp_section_ref' = transfers.shielded_section_hash
            /\ pc' = "ast_resolve"
            /\ UNCHANGED ret
       ELSE /\ ret' = [ret EXCEPT !.top = Ok]
            /\ pc' = "done"
            /\ UNCHANGED masp_section_ref
    /\ UNCHANGED <<env, args, att_locals, debited_accounts, shielded, masp_authorizers, idx>>

----------------------------------------------------------------------------
(* apply_shielded_transfer, lines 159-208 *)

\* Variant of AST_Return in which multi_transfer drops the error of the
\* shielded leg and returns Ok
AST_Return_Swallow(r) ==
    /\ ret' = [ret EXCEPT !.ast = r,
                          !.top = IF op = "multi_transfer" THEN Ok ELSE r]
    /\ pc' = "done"

\* A return of apply_shielded_transfer; multi_transfer, lines 83-85, returns
\* its error wrapped and Ok after its Ok
AST_Return(r) ==
    /\ ret' = [ret EXCEPT !.ast = r,
                          !.top = IF op = "multi_transfer"
                                  THEN wrap_err(r, ErrShielded) ELSE r]
    /\ pc' = "done"

\* Variant of AST_Resolve that returns the error of a missing section
\* without setting the sentinel
AST_Resolve_NoSentinel ==
    /\ pc = "ast_resolve"
    /\ LET found == get_masp_section(tx_data, masp_section_ref)
       IN  IF found = <<>>
           THEN /\ AST_Return(Err(<<ErrMissingSection>>))
                /\ UNCHANGED shielded
           ELSE /\ shielded' = <<Head(found)>>
                /\ pc' = "ast_handle"
                /\ UNCHANGED ret
    /\ UNCHANGED <<env, args, att_locals, masp_section_ref, debited_accounts,
                   masp_authorizers, idx>>

\* Lines 165-173: resolve the section; when it is missing set the sentinel
\* and return the error
AST_Resolve ==
    /\ pc = "ast_resolve"
    /\ LET found == get_masp_section(tx_data, masp_section_ref)
       IN  IF found = <<>>
           THEN /\ sentinel' = TRUE
                /\ sentinel_calls' = sentinel_calls + 1
                /\ AST_Return(Err(<<ErrMissingSection>>))
                /\ UNCHANGED shielded
           ELSE /\ shielded' = <<Head(found)>>
                /\ pc' = "ast_handle"
                /\ UNCHANGED <<sentinel, sentinel_calls, ret>>
    /\ UNCHANGED <<balance, verifiers, verifier_log, events, actions, pool, tree, args, att_locals,
                   masp_section_ref, debited_accounts, masp_authorizers, idx>>

\* Variant of AST_HandleMaspTx that sets the sentinel when the adapter fails
AST_HandleMaspTx_Poison ==
    /\ pc = "ast_handle"
    /\ \E ok \in BOOLEAN :
        IF ok
        THEN /\ pool' = Append(pool, shielded[1].id)
             /\ pc' = "ast_tree"
             /\ UNCHANGED <<ret, sentinel, sentinel_calls>>
        ELSE /\ AST_Return(wrap_err(Err(<<"handle_masp_tx">>), ErrHandleMasp))
             /\ sentinel' = TRUE
             /\ sentinel_calls' = sentinel_calls + 1
             /\ UNCHANGED pool
    /\ UNCHANGED <<balance, verifiers, verifier_log, events, actions, tree,
                   args, att_locals, ast_locals, idx>>

\* Variant of AST_HandleMaspTx that drops the error of the adapter (no `?`)
\* and goes on to the commitment-tree update
AST_HandleMaspTx_Continue ==
    /\ pc = "ast_handle"
    /\ \E ok \in BOOLEAN :
        /\ pool' = IF ok THEN Append(pool, shielded[1].id) ELSE pool
        /\ pc' = "ast_tree"
        /\ UNCHANGED ret
    /\ UNCHANGED <<balance, verifiers, verifier_log, events, actions, sentinel, sentinel_calls, tree,
                   args, att_locals, ast_locals, idx>>

\* Lines 174-175: utils::handle_masp_tx applies the payload to the pool, or
\* fails and its error is returned wrapped
AST_HandleMaspTx ==
    /\ pc = "ast_handle"
    /\ \E ok \in BOOLEAN :
        IF ok
        THEN /\ pool' = Append(pool, shielded[1].id)
             /\ pc' = "ast_tree"
             /\ UNCHANGED ret
        ELSE /\ AST_Return(wrap_err(Err(<<"handle_masp_tx">>), ErrHandleMasp))
             /\ UNCHANGED pool
    /\ UNCHANGED <<balance, verifiers, verifier_log, events, actions, sentinel, sentinel_calls, tree,
                   args, att_locals, ast_locals, idx>>

\* Lines 176-177: update_masp_note_commitment_tree appends the payload's
\* commitments, or fails and its error is returned wrapped
AST_UpdateTree ==
    /\ pc = "ast_tree"
    /\ \E ok \in BOOLEAN :
        IF ok
        THEN /\ tree' = Append(tree, shielded[1].id)
             /\ pc' = "ast_section_ref"
             /\ UNCHANGED ret
        ELSE /\ AST_Return(wrap_err(Err(<<"update_masp_note_commitment_tree">>),
                                    ErrUpdateTree))
             /\ UNCHANGED tree
    /\ UNCHANGED <<balance, verifiers, verifier_log, events, actions, sentinel, sentinel_calls, pool,
                   args, att_locals, ast_locals, idx>>

\* Variant of AST_PushSectionRef that leaves the push of the section
\* reference for after the authorizers
AST_PushSectionRef_Deferred ==
    /\ pc = "ast_section_ref"
    /\ pc' = "ast_reconcile"
    /\ UNCHANGED <<env, args, att_locals, ast_locals, idx, ret>>

\* Lines 179-181: push the MaspSectionRef action; `?` returns a failure of
\* push_action as it is
AST_PushSectionRef ==
    /\ pc = "ast_section_ref"
    /\ \E ok \in BOOLEAN :
        IF ok
        THEN /\ actions' = Append(actions, MaspSectionRef(masp_section_ref))
             /\ pc' = "ast_reconcile"
             /\ UNCHANGED ret
        ELSE /\ AST_Return(Err(<<"push_action">>))
             /\ UNCHANGED actions
    /\ UNCHANGED <<balance, verifiers, verifier_log, events, sentinel, sentinel_calls, pool, tree,
                   args, att_locals, ast_locals, idx>>

\* Lines 184-192: the vin addresses of the payload's transparent bundle as a
\* set, empty without a bundle
vin_addresses(sh) ==
    IF sh.transparent_bundle = <<>> THEN {} ELSE Range(sh.transparent_bundle[1])

\* Variant of MaspAuthorizersOf that collects the authorizers in the reverse
\* of the order of the debited accounts
MaspAuthorizersOf_Reversed(debited, vin) ==
    LET auth == SelectSeq(debited, LAMBDA account : addr_taddr(account) \in vin)
    IN  [i \in 1..Len(auth) |-> auth[Len(auth) + 1 - i]]

\* Variant of MaspAuthorizersOf without the filter of line 195: every debited
\* account is an authorizer
MaspAuthorizersOf_NoFilter(debited, vin) == debited

\* Lines 193-196: the debited accounts whose taddr is a vin address, in the
\* order of the debited accounts
MaspAuthorizersOf(debited, vin) ==
    SelectSeq(debited, LAMBDA account : addr_taddr(account) \in vin)

\* Variant of NotAllDebited that asks only for some authorizer (non-emptiness
\* in place of equality)
NotAllDebited_NonEmptiness(authorizers, vin) == authorizers = <<>> /\ vin # {}

\* Variant of NotAllDebited that never reports a mismatch
NotAllDebited_Never(authorizers, vin) == FALSE

\* Line 197: the authorization mismatch
NotAllDebited(authorizers, vin) == Len(authorizers) # Cardinality(vin)

\* Variant of AST_Reconcile that sets the commitment sentinel when it returns
\* the mismatch error
AST_Reconcile_Poison ==
    /\ pc = "ast_reconcile"
    /\ LET vin == vin_addresses(shielded[1])
           auth == MaspAuthorizersOf(debited_accounts, vin)
       IN  /\ masp_authorizers' = auth
           /\ IF NotAllDebited(auth, vin)
              THEN /\ AST_Return(Err(<<ErrNotAllDebited>>))
                   /\ sentinel' = TRUE
                   /\ sentinel_calls' = sentinel_calls + 1
                   /\ UNCHANGED idx
              ELSE /\ pc' = "ast_authorizers"
                   /\ idx' = 1
                   /\ UNCHANGED <<ret, sentinel, sentinel_calls>>
    /\ UNCHANGED <<balance, verifiers, verifier_log, events, actions, pool, tree,
                   args, att_locals, masp_section_ref, debited_accounts, shielded>>

\* Lines 184-201: compute the authorizers and return the mismatch error
\* unless there is one per vin address
AST_Reconcile ==
    /\ pc = "ast_reconcile"
    /\ LET vin == vin_addresses(shielded[1])
           auth == MaspAuthorizersOf(debited_accounts, vin)
       IN  /\ masp_authorizers' = auth
           /\ IF NotAllDebited(auth, vin)
              THEN /\ AST_Return(Err(<<ErrNotAllDebited>>))
                   /\ UNCHANGED idx
              ELSE /\ pc' = "ast_authorizers"
                   /\ idx' = 1
                   /\ UNCHANGED ret
    /\ UNCHANGED <<env, args, att_locals, masp_section_ref, debited_accounts, shielded>>

\* Lines 203-207: push one MaspAuthorizer action per authorizer, then return
\* Ok; `?` returns a failure of push_action as it is
AST_PushAuthorizers ==
    /\ pc = "ast_authorizers"
    /\ IF idx > Len(masp_authorizers)
       THEN /\ AST_Return(Ok)
            /\ UNCHANGED <<actions, idx>>
       ELSE \E ok \in BOOLEAN :
            IF ok
            THEN /\ actions' = Append(actions, MaspAuthorizer(masp_authorizers[idx]))
                 /\ idx' = idx + 1
                 /\ UNCHANGED <<pc, ret>>
            ELSE /\ AST_Return(Err(<<"push_action">>))
                 /\ UNCHANGED <<actions, idx>>
    /\ UNCHANGED <<balance, verifiers, verifier_log, events, sentinel, sentinel_calls, pool, tree,
                   args, att_locals, ast_locals>>

----------------------------------------------------------------------------
(* Specification *)

Next ==
    \/ Call_multi_transfer
    \/ Call_apply_transparent_transfers
    \/ Call_apply_shielded_transfer
    \/ Call_transfer
    \/ TR_Verifiers
    \/ TR_Transfer
    \/ TR_Emit
    \/ ATT_MultiTransfer
    \/ ATT_Sources
    \/ ATT_Targets
    \/ ATT_Emit
    \/ MT_Shielded
    \/ AST_Resolve
    \/ AST_HandleMaspTx
    \/ AST_UpdateTree
    \/ AST_PushSectionRef
    \/ AST_Reconcile
    \/ AST_PushAuthorizers

Spec == Init /\ [][Next]_vars

----------------------------------------------------------------------------
(* What the claims speak of *)

\* The actions the call pushed
NewActions == SubSeq(actions, Len(pre.actions) + 1, Len(actions))

\* The accounts of the MaspAuthorizer actions the call pushed, in order
PushedAuthorizers ==
    LET auth == SelectSeq(NewActions, LAMBDA a : a.kind = "MaspAuthorizer")
    IN  [i \in 1..Len(auth) |-> auth[i].arg]

\* The vin addresses of the resolved payload
ResolvedVin == IF shielded = <<>> THEN {} ELSE vin_addresses(shielded[1])

\* The vin addresses that are the taddr of no debited account
UnbackedVin ==
    {v \in ResolvedVin : \A a \in Range(debited_accounts) : addr_taddr(a) # v}

\* apply_shielded_transfer has been called
ShieldedStarted == pc \in {"ast_resolve", "ast_handle", "ast_tree", "ast_section_ref",
                           "ast_reconcile", "ast_authorizers"} \/ ret.ast.st # "none"

----------------------------------------------------------------------------
(* Claims *)

\* C1: whenever apply_shielded_transfer returns Ok, every vin address of the
\* payload's transparent bundle is addr_taddr(a) of some account a of the
\* debited_accounts passed in.
C1_VinBackedByDebit ==
    ret.ast.st = "ok" =>
        \A v \in ResolvedVin : \E a \in Range(debited_accounts) : addr_taddr(a) = v

\* C1 witness: an Ok return for a payload with two distinct vin addresses.
C1_Witness ==
    /\ ret.ast.st = "ok"
    /\ Cardinality(ResolvedVin) = 2

\* The stages of apply_shielded_transfer before the reconciliation have
\* succeeded: the payload is resolved, applied to the pool, its commitments
\* are in the tree and the MaspSectionRef action is pushed
ReachedReconciliation ==
    /\ shielded # <<>>
    /\ pool = Append(pre.pool, shielded[1].id)
    /\ tree = Append(pre.tree, shielded[1].id)
    /\ NewActions # <<>>
    /\ NewActions[1] = MaspSectionRef(masp_section_ref)

\* C2 as stated: if the payload resolves and is applied (handle_masp_tx
\* succeeded) and some vin address is the taddr of no debited account, the
\* call returns the mismatch error and pushed no MaspAuthorizer action.
C2_AsStated ==
    (/\ pc = "done"
     /\ shielded # <<>>
     /\ pool = Append(pre.pool, shielded[1].id)
     /\ UnbackedVin # {})
        => /\ ret.ast = Err(<<ErrNotAllDebited>>)
           /\ PushedAuthorizers = <<>>

\* C2 amended: if the payload resolves, handle_masp_tx and the commitment-tree
\* update succeed and the MaspSectionRef action is pushed, and some vin
\* address is the taddr of no debited account, the call returns the mismatch
\* error; and whatever the stage it ends in, a call with such a vin address
\* pushes no MaspAuthorizer action.
C2_MismatchRejected ==
    /\ (pc = "done" /\ ReachedReconciliation /\ UnbackedVin # {})
            => ret.ast = Err(<<ErrNotAllDebited>>)
    /\ UnbackedVin # {} => PushedAuthorizers = <<>>

\* C2 witness: the mismatch error for a payload with a backed and an unbacked
\* vin address.
C2_Witness ==
    /\ pc = "done"
    /\ ReachedReconciliation
    /\ UnbackedVin # {}
    /\ UnbackedVin # ResolvedVin
    /\ ret.ast = Err(<<ErrNotAllDebited>>)

\* C3: whenever apply_shielded_transfer returns Ok, the MaspAuthorizer actions
\* it pushed are exactly one per debited account whose taddr is a vin address:
\* as many as there are vin addresses, none twice, none for another account.
C3_OneActionPerAuthorizer ==
    ret.ast.st = "ok" =>
        /\ Range(PushedAuthorizers) =
               {a \in Range(debited_accounts) : addr_taddr(a) \in ResolvedVin}
        /\ Len(PushedAuthorizers) = Cardinality(ResolvedVin)
        /\ \A i, j \in 1..Len(PushedAuthorizers) :
               i # j => PushedAuthorizers[i] # PushedAuthorizers[j]

\* C3 witness: an Ok return where two accounts are debited and one of them is
\* the only authorizer.
C3_Witness ==
    /\ ret.ast.st = "ok"
    /\ Len(debited_accounts) = 2
    /\ Len(PushedAuthorizers) = 1

\* apply_transparent_transfers is running
TransparentRunning == pc \in {"att_transfer", "att_sources", "att_targets", "att_emit"}

\* The call is a multi_transfer with a transparent leg and a shielded section
BothLegs ==
    /\ op = "multi_transfer"
    /\ transparent_part(transfers) # <<>>
    /\ transfers.shielded_section_hash # None

\* C4: after a successful multi_transfer with a transparent leg and a shielded
\* section, every account of a MaspAuthorizer action had a balance reduced by
\* the transparent leg and is in the debited accounts that leg returned.
C4_AuthorizersWereDebited ==
    (pc = "done" /\ BothLegs /\ ret.top.st = "ok") =>
        \A a \in Range(PushedAuthorizers) :
            /\ \E t \in Tokens : balance[<<a, t>>] < pre.balance[<<a, t>>]
            /\ a \in Range(att_debited)

\* C4 witness: a successful multi_transfer with both legs and two authorizers.
C4_Witness ==
    /\ pc = "done"
    /\ BothLegs
    /\ ret.top.st = "ok"
    /\ Len(PushedAuthorizers) = 2

\* C5: in the action log every MaspAuthorizer action comes after the
\* MaspSectionRef action the same call pushed for its section reference.
C5_SectionRefBeforeAuthorizers ==
    \A i \in 1..Len(actions) :
        actions[i].kind = "MaspAuthorizer" =>
            \E j \in (Len(pre.actions) + 1)..(i - 1) :
                actions[j] = MaspSectionRef(masp_section_ref)

\* C5 witness: two MaspAuthorizer actions in a log that was not empty.
C5_Witness ==
    /\ pre.actions # <<>>
    /\ Len(PushedAuthorizers) = 2

\* C6: when the section reference is not in the transaction body,
\* apply_shielded_transfer returns the missing-section error,
\* set_commitment_sentinel is called once, and the pool, the commitment tree
\* and the action log are as before the call.
C6_MissingSection ==
    (ret.ast.st # "none" /\ get_masp_section(tx_data, masp_section_ref) = <<>>) =>
        /\ ret.ast = Err(<<ErrMissingSection>>)
        /\ sentinel
        /\ sentinel_calls = pre.sentinel_calls + 1
        /\ pool = pre.pool
        /\ tree = pre.tree
        /\ actions = pre.actions

\* C6 witness: the missing-section error in a multi_transfer whose body holds
\* another section.
C6_Witness ==
    /\ op = "multi_transfer"
    /\ tx_data # <<>>
    /\ ret.ast = Err(<<ErrMissingSection>>)
    /\ sentinel_calls = pre.sentinel_calls + 1

\* The sentinel was set since the call started
SentinelTouched == sentinel # pre.sentinel \/ sentinel_calls # pre.sentinel_calls

\* C7: the sentinel is set if and only if the section resolution fails; a
\* failure of handle_masp_tx, of the tree update, a mismatch and a success
\* leave it as it was.
C7_SentinelIffMissingSection ==
    /\ SentinelTouched =>
           ShieldedStarted /\ get_masp_section(tx_data, masp_section_ref) = <<>>
    /\ ret.ast.st # "none" =>
           (SentinelTouched <=> get_masp_section(tx_data, masp_section_ref) = <<>>)

\* C7 witness: handle_masp_tx failed and the sentinel is as before.
C7_Witness ==
    /\ ret.ast = Err(<<ErrHandleMasp, "handle_masp_tx">>)
    /\ ~SentinelTouched

\* C8: in multi_transfer the shielded leg starts only after the transparent
\* leg returned Ok, with the debited accounts that leg returned; while the
\* transparent leg runs nothing of the shielded leg has happened; after a
\* failed transparent leg the call is over and nothing of the shielded leg
\* has happened.
C8_TransparentThenShielded ==
    op = "multi_transfer" =>
        /\ (ShieldedStarted /\ transparent_part(transfers) # <<>>) =>
               /\ ret.att = Ok
               /\ debited_accounts = att_debited
        /\ (TransparentRunning \/ ret.att.st = "err") =>
               /\ ~ShieldedStarted
               /\ shielded = <<>>
               /\ ~SentinelTouched
               /\ pool = pre.pool
               /\ tree = pre.tree
               /\ actions = pre.actions
        /\ ret.att.st = "err" => pc = "done"

\* C8 witness: the shielded leg of a multi_transfer starts with two debited
\* accounts.
C8_Witness ==
    /\ op = "multi_transfer"
    /\ pc = "ast_resolve"
    /\ Len(debited_accounts) = 2

\* The verifiers the transparent leg of the call inserts
TransparentVerifiers ==
    LET touched == TouchedKeys(transfers.sources, transfers.targets)
    IN  {k[1] : k \in touched} \cup {k[2] : k \in {x \in touched : is_internal(x[2])}}

\* C9: when in multi_transfer the transparent leg succeeded and the shielded
\* leg failed, multi_transfer returns an error and the balances, the verifiers
\* and the event of the transparent leg are in place.
C9_TransparentNotUndone ==
    (pc = "done" /\ op = "multi_transfer" /\ ret.att = Ok /\ ret.ast.st = "err") =>
        /\ ret.top.st = "err"
        /\ \A k \in Keys :
               balance[k] = pre.balance[k] - GetOrZero(transfers.sources, k)
                                + GetOrZero(transfers.targets, k)
        /\ verifiers = pre.verifiers \cup TransparentVerifiers
        /\ events = Append(pre.events,
               TransferEvent(transfers.sources, transfers.targets,
                   [k \in TouchedKeys(transfers.sources, transfers.targets) |-> balance[k]]))

\* C9 witness: the shielded leg fails with the mismatch error after a
\* transparent leg that changed balances.
C9_Witness ==
    /\ pc = "done"
    /\ op = "multi_transfer"
    /\ ret.att = Ok
    /\ ret.ast = Err(<<ErrNotAllDebited>>)
    /\ balance # pre.balance

\* Some source of the descriptor has insufficient balance, or some credit
\* overflows the amount type, in the state the call started from
TransferMustFail ==
    \E k \in TouchedKeys(transfers.sources, transfers.targets) :
        LET after == pre.balance[k] - GetOrZero(transfers.sources, k)
                         + GetOrZero(transfers.targets, k)
        IN  after < 0 \/ after > MaxAmount

\* C10: when a source has insufficient balance or a credit overflows,
\* apply_transparent_transfers returns an error and no balance has changed,
\* no verifier is inserted and no event is emitted.
C10_FailedTransferChangesNothing ==
    (op \in {"multi_transfer", "apply_transparent_transfers"}
         /\ pc \notin {"idle", "att_transfer"} /\ TransferMustFail) =>
        /\ pc = "done"
        /\ ret.att.st = "err"
        /\ balance = pre.balance
        /\ verifiers = pre.verifiers
        /\ events = pre.events

\* C10 witness: a transfer with a source and a target fails on an overflow.
C10_Witness ==
    /\ pc = "done"
    /\ ret.att = Err(<<"The transfer would overflow target balance">>)
    /\ DOMAIN transfers.sources # {}
    /\ DOMAIN transfers.targets # {}

----------------------------------------------------------------------------
(* The balances after the transparent leg *)

\* apply_transparent_transfers returned Ok
TransparentSucceeded == ret.att = Ok

\* C11: after a successful apply_transparent_transfers the balance of every
\* (account, token) pair is its balance before the call, minus the amount the
\* pair is a source of, plus the amount it is a target of; a pair that is
\* neither keeps its balance
C11_BalancesAfterTransparent ==
    TransparentSucceeded =>
        \A k \in Keys :
            balance[k] = pre.balance[k] - GetOrZero(transfers.sources, k)
                                        + GetOrZero(transfers.targets, k)

\* One account paid a positive amount of a token to another: the first lost
\* it, the second gained it, the pairs of the other token kept their balance
C11_Witness ==
    /\ TransparentSucceeded
    /\ \E s, t \in Keys :
        /\ s[1] # t[1] /\ s[2] = t[2]
        /\ DOMAIN transfers.sources = {s} /\ DOMAIN transfers.targets = {t}
        /\ transfers.sources[s] = MaxLegAmount /\ transfers.targets[t] = MaxLegAmount
        /\ balance[s] = pre.balance[s] - MaxLegAmount
        /\ balance[t] = pre.balance[t] + MaxLegAmount
        /\ \A k \in Keys \ {s, t} : balance[k] = pre.balance[k]

----------------------------------------------------------------------------
(* Conservation *)

RECURSIVE SumOver(_, _)
\* The sum of f over the keys in S
SumOver(f, S) ==
    IF S = {} THEN 0
    ELSE LET k == CHOOSE x \in S : TRUE
         IN  f[k] + SumOver(f, S \ {k})

\* The keys of S of one token
TokenKeys(S, token) == {k \in S : k[2] = token}

\* The sum of the amounts the descriptor debits, and credits, of a token
Debits(token) ==
    SumOver(transfers.sources, TokenKeys(DOMAIN transfers.sources, token))
Credits(token) ==
    SumOver(transfers.targets, TokenKeys(DOMAIN transfers.targets, token))

\* The total of all balances of a token
TotalBalance(bal, token) == SumOver(bal, TokenKeys(Keys, token))

\* The descriptor credits of every token as much as it debits
BalancedDescriptor == \A token \in Tokens : Credits(token) = Debits(token)

\* C12 as stated: whenever apply_transparent_transfers succeeds, the credits
\* of every token sum to its debits and the total of the token's balances is
\* the same as before the call
C12_AsStated ==
    TransparentSucceeded =>
        \A token \in Tokens :
            /\ Credits(token) = Debits(token)
            /\ TotalBalance(balance, token) = TotalBalance(pre.balance, token)

\* C12: when apply_transparent_transfers succeeds, the total of the balances
\* of every token is the total before the call minus the debits plus the
\* credits of the token; on a descriptor that credits of every token as much
\* as it debits, the total of every token is the same after as before
C12_ConservedWhenBalanced ==
    TransparentSucceeded =>
        /\ \A token \in Tokens :
               TotalBalance(balance, token) =
                   TotalBalance(pre.balance, token) - Debits(token) + Credits(token)
        /\ BalancedDescriptor =>
               \A token \in Tokens :
                   TotalBalance(balance, token) = TotalBalance(pre.balance, token)

\* A balanced descriptor moved a positive amount between two accounts
C12_Witness ==
    /\ TransparentSucceeded
    /\ BalancedDescriptor
    /\ \E token \in Tokens : Debits(token) > 0
    /\ balance # pre.balance
    /\ \A token \in Tokens : TotalBalance(balance, token) = TotalBalance(pre.balance, token)

----------------------------------------------------------------------------
(* Verifiers of the transparent leg *)

----------------------------------------------------------------------------
(* Determinism *)

\* The orders in which the keys of S can be inserted into a map
Orderings(S) == {s \in [1..Cardinality(S) -> S] : Range(s) = S}

RECURSIVE InsertAll(_, _, _)
\* The map built by inserting the keys of ins, in that order, with the
\* amounts of amt
InsertAll(m, ins, amt) ==
    IF ins = <<>> THEN m
    ELSE InsertAll(MapInsert(m, Head(ins), amt[Head(ins)]), Tail(ins), amt)

RECURSIVE VerifierCallsOf(_)
\* The calls of insert_verifier a loop makes over the given pairs: the
\* account, then the token if it is internal
VerifierCallsOf(keys) ==
    IF keys = <<>> THEN <<>>
    ELSE LET k == Head(keys)
         IN  (IF is_internal(k[2]) THEN <<k[1], k[2]>> ELSE <<k[1]>>)
                 \o VerifierCallsOf(Tail(keys))

----------------------------------------------------------------------------
(* The event of the transparent leg *)

\* C15: a successful apply_transparent_transfers has emitted exactly one
\* event; its sources are the descriptor's sources with their amounts, its
\* targets the descriptor's targets with theirs, and its post_balances has one
\* entry per pair that is a source or a target (zero-amount legs included, a
\* pair that is both has one entry), whose value is the pair's balance after
\* the mutation
C15_OneEventWithPostBalances ==
    TransparentSucceeded =>
        /\ Len(events) = Len(pre.events) + 1
        /\ SubSeq(events, 1, Len(pre.events)) = pre.events
        /\ LET e == events[Len(events)]
           IN  /\ e.descriptor = "transfer-from-wasm" /\ e.level = "Tx"
               /\ e.sources = transfers.sources
               /\ e.targets = transfers.targets
               /\ DOMAIN e.post_balances =
                      DOMAIN transfers.sources \cup DOMAIN transfers.targets
               /\ \A k \in DOMAIN e.post_balances :
                      /\ e.post_balances[k] = balance[k]
                      /\ e.post_balances[k] =
                             pre.balance[k] - GetOrZero(transfers.sources, k)
                                            + GetOrZero(transfers.targets, k)

\* The event of a descriptor with a pair that is a source of a positive
\* amount and a target of amount zero: one post_balances entry, the balance
\* after the debit
C15_Witness ==
    /\ TransparentSucceeded
    /\ \E k \in Keys :
        /\ DOMAIN transfers.sources = {k} /\ DOMAIN transfers.targets = {k}
        /\ transfers.sources[k] > 0 /\ transfers.targets[k] = 0
        /\ events[Len(events)].post_balances = [x \in {k} |-> balance[k]]
        /\ balance[k] < pre.balance[k]

----------------------------------------------------------------------------
(* transfer and the multi-leg transfer *)

\* The one-source, one-target descriptor of the arguments of transfer
XferSources == MapInsert(EmptyMap, <<xfer.src, xfer.token>>, xfer.amount)
XferTargets == MapInsert(EmptyMap, <<xfer.dest, xfer.token>>, xfer.amount)

\* C16: whenever transfer(src, dest, token, amount) succeeds and
\* apply_transparent_transfers with the sources {(src, token): amount} and the
\* targets {(dest, token): amount} succeeds from the same state, transfer
\* leaves the balances and the verifiers that call leaves, and has emitted
\* exactly one event, which carries the balances of src and of dest after the
\* transfer; src = dest and amount = 0 included
C16_TransferIsDegenerateMultiTransfer ==
    (/\ op = "transfer" /\ ret.top = Ok
     /\ token_multi_transfer_result(pre.balance, XferSources, XferTargets) = Ok) =>
        /\ balance = token_multi_transfer_balances(pre.balance, XferSources, XferTargets)
        /\ verifiers = pre.verifiers
               \cup Range(VerifierCallsOf(SortedKeys(DOMAIN XferSources)))
               \cup Range(VerifierCallsOf(SortedKeys(DOMAIN XferTargets)))
        /\ Len(events) = Len(pre.events) + 1
        /\ SubSeq(events, 1, Len(pre.events)) = pre.events
        /\ LET e == events[Len(events)]
           IN  /\ e.post_balances[<<xfer.src, xfer.token>>] =
                      balance[<<xfer.src, xfer.token>>]
               /\ e.post_balances[<<xfer.dest, xfer.token>>] =
                      balance[<<xfer.dest, xfer.token>>]

\* A successful transfer of a positive amount of the internal token from an
\* account to itself
C16_Witness ==
    /\ op = "transfer" /\ ret.top = Ok
    /\ xfer.src = xfer.dest /\ xfer.amount > 0 /\ is_internal(xfer.token)
    /\ balance = pre.balance
    /\ verifiers = pre.verifiers \cup {xfer.src, xfer.token}
    /\ Len(events) = Len(pre.events) + 1

----------------------------------------------------------------------------
(* Errors of multi_transfer *)

\* C17: multi_transfer returns Ok exactly when every stage the descriptor has
\* returned Ok; an error of the transparent stage is returned under the label
\* "Transparent token transfer failed" and the shielded stage is not run; an
\* error of the shielded stage is returned under the label "Shielded token
\* transfer failed"; a stage the descriptor does not have is not run, and no
\* stage is run twice
C17_StageErrorsPropagate ==
    (op = "multi_transfer" /\ pc = "done") =>
        /\ ret.top.st \in {"ok", "err"}
        /\ ret.top = Ok <=>
               /\ transparent_part(transfers) # <<>> => ret.att = Ok
               /\ transfers.shielded_section_hash # None => ret.ast = Ok
        /\ ret.att.st = "err" =>
               /\ ret.top = Err(<<ErrTransparent>> \o ret.att.err)
               /\ ret.ast.st = "none"
        /\ ret.ast.st = "err" => ret.top = Err(<<ErrShielded>> \o ret.ast.err)
        /\ transparent_part(transfers) = <<>> => ret.att.st = "none"
        /\ transfers.shielded_section_hash = None => ret.ast.st = "none"
        /\ Len(events) <= Len(pre.events) + 1
        /\ Len(pool) <= Len(pre.pool) + 1
        /\ Len(tree) <= Len(pre.tree) + 1

\* A multi_transfer with both stages whose transparent stage failed on a
\* balance: the error comes back under the label of that stage
C17_Witness ==
    /\ op = "multi_transfer" /\ pc = "done"
    /\ transfers.shielded_section_hash # None
    /\ ret.att = Err(<<"Insufficient source balance">>)
    /\ ret.top = Err(<<ErrTransparent, "Insufficient source balance">>)

----------------------------------------------------------------------------
(* The stages of apply_shielded_transfer *)

\* C18: the stages of apply_shielded_transfer take effect in the order
\* resolve, handle_masp_tx, commitment-tree update, push of MaspSectionRef,
\* reconciliation, push of the MaspAuthorizer actions, each only after every
\* earlier one succeeded: the pool changes only for a resolved payload, the
\* tree only after the pool, an action is pushed only after the tree update,
\* a MaspAuthorizer only after the MaspSectionRef and a reconciliation with one
\* authorizer per vin address; after a failure of handle_masp_tx the tree is
\* not updated and no action is pushed, after a failure of the tree update no
\* action is pushed
C18_StagesInOrder ==
    /\ pool # pre.pool =>
           shielded # <<>> /\ pool = Append(pre.pool, shielded[1].id)
    /\ tree # pre.tree =>
           pool # pre.pool /\ tree = Append(pre.tree, shielded[1].id)
    /\ NewActions # <<>> =>
           tree # pre.tree /\ NewActions[1] = MaspSectionRef(masp_section_ref)
    /\ PushedAuthorizers # <<>> =>
           /\ NewActions[1] = MaspSectionRef(masp_section_ref)
           /\ Len(masp_authorizers) = Cardinality(ResolvedVin)
           /\ \A i \in 1..Len(PushedAuthorizers) :
                  PushedAuthorizers[i] = masp_authorizers[i]
    /\ ret.ast = Err(<<ErrMissingSection>>) =>
           pool = pre.pool /\ tree = pre.tree /\ actions = pre.actions
    /\ ret.ast = Err(<<ErrHandleMasp, "handle_masp_tx">>) =>
           pool = pre.pool /\ tree = pre.tree /\ actions = pre.actions
    /\ ret.ast = Err(<<ErrUpdateTree, "update_masp_note_commitment_tree">>) =>
           pool # pre.pool /\ tree = pre.tree /\ actions = pre.actions

\* The commitment-tree update failed after handle_masp_tx applied the
\* payload: no action has been pushed
C18_Witness ==
    /\ ret.ast = Err(<<ErrUpdateTree, "update_masp_note_commitment_tree">>)
    /\ pool # pre.pool
    /\ tree = pre.tree
    /\ actions = pre.actions

----------------------------------------------------------------------------
(* The frame of the mismatch error *)

\* C19: when apply_shielded_transfer has returned the authorization-mismatch
\* error, the effects of its earlier stages are in place (the pool holds the
\* payload, the commitment tree holds its commitments, the MaspSectionRef
\* action is the one action the call pushed) and the sentinel is as it was
\* when the call started; a direct call has changed nothing else
C19_MismatchKeepsEarlierEffects ==
    ret.ast = Err(<<ErrNotAllDebited>>) =>
        /\ shielded # <<>>
        /\ pool = Append(pre.pool, shielded[1].id)
        /\ tree = Append(pre.tree, shielded[1].id)
        /\ NewActions = <<MaspSectionRef(masp_section_ref)>>
        /\ sentinel = pre.sentinel
        /\ sentinel_calls = pre.sentinel_calls
        /\ op = "apply_shielded_transfer" =>
               /\ balance = pre.balance
               /\ verifiers = pre.verifiers
               /\ events = pre.events

\* A direct call with one debited account and the vin addresses of two
\* accounts returned the mismatch error
C19_Witness ==
    /\ op = "apply_shielded_transfer"
    /\ ret.ast = Err(<<ErrNotAllDebited>>)
    /\ Len(debited_accounts) = 1
    /\ Cardinality(ResolvedVin) = 2
    /\ Len(pool) = Len(pre.pool) + 1
    /\ Len(actions) = Len(pre.actions) + 1
    /\ ~sentinel

----------------------------------------------------------------------------
(* A shielded section without a transparent leg *)

\* A multi_transfer whose descriptor has a shielded section and no source and
\* no target has returned
ShieldedOnlyDone ==
    /\ op = "multi_transfer" /\ pc = "done"
    /\ transparent_part(transfers) = <<>>
    /\ transfers.shielded_section_hash # None

\* C20 as stated: with a shielded section and no transparent leg the debited
\* set passed on is empty; the call succeeds only if the payload has no vin
\* address, and then no MaspAuthorizer action is pushed; with at least one vin
\* address it fails with the authorization-mismatch error
C20_AsStated ==
    ShieldedOnlyDone =>
        /\ debited_accounts = <<>>
        /\ ret.top = Ok => ResolvedVin = {} /\ PushedAuthorizers = <<>>
        /\ ResolvedVin # {} =>
               ret.top = Err(<<ErrShielded, ErrNotAllDebited>>)

\* C20: with a shielded section and no transparent leg the debited set passed
\* on is empty; the call succeeds only if the payload has no vin address, and
\* then no MaspAuthorizer action is pushed; with at least one vin address it
\* fails and pushes no MaspAuthorizer action, and the error is the
\* authorization-mismatch error when handle_masp_tx, the commitment-tree
\* update and the push of MaspSectionRef succeeded
C20_ShieldedOnlyNeedsNoVin ==
    ShieldedOnlyDone =>
        /\ debited_accounts = <<>>
        /\ ret.top = Ok => ResolvedVin = {} /\ PushedAuthorizers = <<>>
        /\ ResolvedVin # {} =>
               /\ ret.top.st = "err"
               /\ PushedAuthorizers = <<>>
               /\ ReachedReconciliation =>
                      /\ ret.ast = Err(<<ErrNotAllDebited>>)
                      /\ ret.top = Err(<<ErrShielded, ErrNotAllDebited>>)

\* A shielded-only multi_transfer whose payload has a vin address got as far
\* as the reconciliation and returned the mismatch error
C20_Witness ==
    /\ ShieldedOnlyDone
    /\ ResolvedVin # {}
    /\ ReachedReconciliation
    /\ ret.top = Err(<<ErrShielded, ErrNotAllDebited>>)

============================================================================
